---- MODULE Spec2Model ----
(***************************************************************************)
(* Booking availability and payment reconciliation of                      *)
(* src/backend/server.py.                                                  *)
(*                                                                         *)
(* Every HTTP handler is an asyncio coroutine: it runs atomically between  *)
(* two awaits, and every storage or provider call is an await.  A request  *)
(* is therefore a little process whose steps are its awaited calls, and    *)
(* the steps of the requests in flight interleave freely.                  *)
(***************************************************************************)
EXTENDS Integers, Sequences, FiniteSets, TLC

\* ---------------------------------------------------------------- bounds
MaxBookings  == 2     \* bookings ever inserted
MaxSessions  == 2     \* checkout sessions the provider ever creates
MaxRequests  == 2     \* requests in flight at the same time
RaceBookings == 1     \* bookings, when requests run concurrently
RaceSessions == 1     \* checkout sessions, when requests run concurrently
MaxEmails   == 2      \* the confirmation counter saturates here ("or more")
MaxStamp    == 2      \* the updated_at counter saturates here ("or later")

\* ------------------------------------------------------ users, properties
Users == {"alice", "bob", "admin"}

\* UserRole of the stored user document
Role(u) == IF u = "admin" THEN "admin" ELSE "user"

PropertyIds == {"p1", "p2"}

\* nightly prices: the one a property is created with, and one an
\* administrator changes it to
Prices == {100, 150}

\* ------------------------------------------------------------- datetimes
\* A parsed datetime is its wall-clock reading (loc, in units of 12 hours)
\* and its UTC offset (off, same unit): "2024-06-02T00:00:00+12:00" is
\* loc = 2, off = 1 when 2024-06-01T00:00:00 is loc = 0.
Offsets == {0, 1}

DT(l, o) == [loc |-> l, off |-> o]

\* aware datetimes are compared and subtracted as instants
Instant(d) == d.loc - d.off

\* a night count that takes the distance between the two dates
nights_Abs(ci, co) ==
    IF Instant(co) >= Instant(ci) THEN (Instant(co) - Instant(ci)) \div 2
    ELSE (Instant(ci) - Instant(co)) \div 2

\* (check_out - check_in).days: timedelta.days is the floor of the
\* difference in whole days (two units of 12 hours)
nights(ci, co) == (Instant(co) - Instant(ci)) \div 2

\* rank of the "+HH:MM" / "-HH:MM" suffix in string order: '+' sorts
\* before '-', and the digits by magnitude
SuffixRank(o) == IF o >= 0 THEN o ELSE 100 - o

\* datetime.isoformat(): the fixed-width wall-clock fields followed by the
\* offset suffix; kept as the pair that decides string order
isoformat(d) == <<d.loc, SuffixRank(d.off)>>

\* datetime.fromisoformat() of a stored string
fromisoformat(s) ==
    [loc |-> s[1], off |-> IF s[2] >= 100 THEN 100 - s[2] ELSE s[2]]

\* the document store compares the stored ISO strings as strings ($lt/$gt)
StrLess(s, t) == s[1] < t[1] \/ (s[1] = t[1] /\ s[2] < t[2])

\* stays a client asks for: <<check_in, check_out>>
StayA == <<DT(0, 0), DT(2, 0)>>      \* night 1
StayB == <<DT(0, 0), DT(4, 0)>>      \* nights 1 and 2
StayC == <<DT(2, 0), DT(4, 0)>>      \* night 2, adjacent to StayA
StayD == <<DT(2, 1), DT(4, 1)>>      \* noon of day 1 to noon of day 2, at +12:00
StayZ == <<DT(2, 0), DT(2, 0)>>      \* zero nights
StayT == <<DT(1, 0), DT(1, 0)>>      \* zero length, inside night 1

StayR == <<DT(2, 0), DT(0, 0)>>      \* check-out a day before check-in
StayH == <<DT(0, 0), DT(1, 0)>>      \* check-out 12 hours after check-in

StoredStays == {StayA, StayB, StayC, StayD}
QueryStays  == StoredStays \cup {StayZ, StayT}

\* ------------------------------------------------------- payment provider
\* payment_status values the provider reports for a session.  A session is
\* created "unpaid" and settles at most once; "failed" takes the same path
\* as "expired" through every handler and is not drawn.
Settlements == {"paid", "expired"}

SuccessEvents == {"checkout.session.completed", "payment_intent.succeeded"}
\* event types drawn for a delivery: one that signals success, one that
\* does not
EventTypes == {"checkout.session.completed", "checkout.session.expired"}

\* a cached-status test that knows only "paid"
Terminal_PaidOnly == {"paid"}

\* the cached-status test of get_checkout_status
Terminal == {"paid", "failed", "expired"}

NoSession == 0

VARIABLES
    properties,     \* db.properties: id -> [price_per_night]
    bookings,       \* db.bookings, in insertion order; the id is the index
    transactions,   \* db.payment_transactions, in insertion order
    provider,       \* the provider's sessions: session id -> its state
    emails,         \* confirmation e-mails sent, per booking
    req             \* the requests in flight

vars == <<properties, bookings, transactions, provider, emails, req>>

Reqs == 1..MaxRequests

Idle == [kind |-> "idle", pc |-> "idle"]

BookingIds == 1..MaxBookings
SessionIds == 1..MaxSessions

\* find_one({"id": booking_id}) on db.bookings
HasBooking(b) == b \in 1..Len(bookings)

\* find_one({"session_id": session_id}) on db.payment_transactions
TxIndex(s) == {i \in 1..Len(transactions) : transactions[i].session_id = s}
HasTx(s) == TxIndex(s) # {}
TxOf(s) == transactions[CHOOSE i \in TxIndex(s) : TRUE]

Init ==
    /\ properties = [p \in PropertyIds |-> [price_per_night |-> 100]]
    /\ bookings = <<>>
    /\ transactions = <<>>
    /\ provider = <<>>
    /\ emails = [b \in BookingIds |-> 0]
    /\ req = [r \in Reqs |-> Idle]

\* a worker takes the next request once it has returned the response of
\* the one before, which stays readable in req[r] until then
Free(r) == req[r].pc \in {"idle", "done"}

\* requests that will still insert a booking, or still open a session
Creating == Cardinality({q \in Reqs : req[q].kind = "create"
                                      /\ req[q].pc \notin {"idle", "done"}})
Opening == Cardinality({q \in Reqs : req[q].kind = "checkout"
                                     /\ req[q].pc = "create_session"})

\* ------------------------------------------------------------ properties
\* update_property up to its update: the administrator test of
\* get_admin_user and the lookup
update_property_find(r, u, p, price) ==
    /\ Free(r)
    /\ req' = [req EXCEPT ![r] =
            [kind |-> "update_property", user |-> u, prop |-> p, price |-> price,
             pc |-> IF Role(u) = "admin" /\ p \in DOMAIN properties
                    THEN "update" ELSE "done",
             res |-> IF Role(u) # "admin" THEN 403
                     ELSE IF p \notin DOMAIN properties THEN 404 ELSE 0]]
    /\ UNCHANGED <<properties, bookings, transactions, provider, emails>>

\* an update that also re-prices the bookings of the property
update_property_update_Reprice(r) ==
    /\ req[r].kind = "update_property" /\ req[r].pc = "update"
    /\ properties' = [properties EXCEPT
            ![req[r].prop].price_per_night = req[r].price]
    /\ bookings' = [i \in 1..Len(bookings) |->
            IF bookings[i].property_id = req[r].prop
            THEN [bookings[i] EXCEPT !.total_price =
                    nights(fromisoformat(bookings[i].check_in),
                           fromisoformat(bookings[i].check_out)) * req[r].price]
            ELSE bookings[i]]
    /\ req' = [req EXCEPT ![r] = [@ EXCEPT !.pc = "done", !.res = 200]]
    /\ UNCHANGED <<transactions, provider, emails>>

\* update_one({"id": property_id}, {"$set": update_data}), then the re-read
\* that is returned
update_property_update(r) ==
    /\ req[r].kind = "update_property" /\ req[r].pc = "update"
    /\ properties' = [properties EXCEPT
            ![req[r].prop].price_per_night = req[r].price]
    /\ req' = [req EXCEPT ![r] = [@ EXCEPT !.pc = "done", !.res = 200]]
    /\ UNCHANGED <<bookings, transactions, provider, emails>>

\* -------------------------------------------------------------- bookings
\* an availability query that compares both bounds with check_in
find_overlapping_SameBound(prop, ci, co) ==
    {i \in 1..Len(bookings) :
        /\ bookings[i].property_id = prop
        /\ bookings[i].status = "confirmed"
        /\ StrLess(bookings[i].check_in, isoformat(ci))
        /\ StrLess(isoformat(ci), bookings[i].check_out)}

\* the availability query of create_booking and check_availability
find_overlapping(prop, ci, co) ==
    {i \in 1..Len(bookings) :
        /\ bookings[i].property_id = prop
        /\ bookings[i].status = "confirmed"
        /\ StrLess(bookings[i].check_in, isoformat(co))
        /\ StrLess(isoformat(ci), bookings[i].check_out)}

\* create_booking up to its first query: the property lookup, the parse
\* of the dates and the night count
create_booking_find_prop(r, u, p, stay) ==
    /\ Free(r)
    /\ LET ci == stay[1]
           co == stay[2]
           base == [kind |-> "create", user |-> u, prop |-> p,
                    ci |-> ci, co |-> co, total |-> 0]
       IN  req' = [req EXCEPT ![r] =
                IF p \notin DOMAIN properties
                THEN [base EXCEPT !.total = 0] @@ [pc |-> "done", res |-> 404]
                ELSE IF nights(ci, co) <= 0
                THEN base @@ [pc |-> "done", res |-> 400]
                ELSE [base EXCEPT !.total =
                          nights(ci, co) * properties[p].price_per_night]
                     @@ [pc |-> "find_overlap", res |-> 0]]
    /\ UNCHANGED <<properties, bookings, transactions, provider, emails>>

create_booking_find_overlap(r) ==
    /\ req[r].kind = "create" /\ req[r].pc = "find_overlap"
    /\ req' = [req EXCEPT ![r] =
            IF find_overlapping(req[r].prop, req[r].ci, req[r].co) # {}
            THEN [@ EXCEPT !.pc = "done", !.res = 400]
            ELSE [@ EXCEPT !.pc = "insert"]]
    /\ UNCHANGED <<properties, bookings, transactions, provider, emails>>

create_booking_insert(r) ==
    /\ req[r].kind = "create" /\ req[r].pc = "insert"
    /\ bookings' = Append(bookings,
            [user_id |-> req[r].user,
             property_id |-> req[r].prop,
             check_in |-> isoformat(req[r].ci),
             check_out |-> isoformat(req[r].co),
             total_price |-> req[r].total,
             status |-> "pending",
             payment_status |-> "pending",
             stripe_session_id |-> NoSession])
    /\ req' = [req EXCEPT ![r] = [@ EXCEPT !.pc = "done", !.res = 200]]
    /\ UNCHANGED <<properties, transactions, provider, emails>>

\* cancel_booking up to its update: lookup and authorization
cancel_booking_find(r, u, b) ==
    /\ Free(r)
    /\ req' = [req EXCEPT ![r] =
            [kind |-> "cancel", user |-> u, booking_id |-> b, mailed |-> FALSE,
             pc |-> IF HasBooking(b)
                       /\ (bookings[b].user_id = u \/ Role(u) = "admin")
                    THEN "update" ELSE "done",
             res |-> IF ~HasBooking(b) THEN 404
                     ELSE IF bookings[b].user_id # u /\ Role(u) # "admin"
                     THEN 403 ELSE 0]]
    /\ UNCHANGED <<properties, bookings, transactions, provider, emails>>

\* a cancellation that is undone when the e-mail cannot be sent
cancel_booking_update_Rollback(r, sent) ==
    /\ req[r].kind = "cancel" /\ req[r].pc = "update"
    /\ bookings' = IF sent
                   THEN [bookings EXCEPT ![req[r].booking_id].status = "cancelled"]
                   ELSE bookings
    /\ req' = [req EXCEPT ![r] =
            [@ EXCEPT !.pc = "done", !.res = IF sent THEN 200 ELSE 500,
                      !.mailed = sent]]
    /\ UNCHANGED <<properties, transactions, provider, emails>>

\* the update, followed by the best-effort cancellation e-mail: send_email
\* logs a failure and returns
cancel_booking_update(r, sent) ==
    /\ req[r].kind = "cancel" /\ req[r].pc = "update"
    /\ bookings' = [bookings EXCEPT ![req[r].booking_id].status = "cancelled"]
    /\ req' = [req EXCEPT ![r] =
            [@ EXCEPT !.pc = "done", !.res = 200, !.mailed = sent]]
    /\ UNCHANGED <<properties, transactions, provider, emails>>

\* check_availability: one query
check_availability(r, p, stay) ==
    /\ Free(r)
    /\ req' = [req EXCEPT ![r] =
            [kind |-> "availability", pc |-> "done", prop |-> p,
             ci |-> stay[1], co |-> stay[2],
             available |-> find_overlapping(p, stay[1], stay[2]) = {}]]
    /\ UNCHANGED <<properties, bookings, transactions, provider, emails>>


\* ------------------------------------------------------- payment provider
\* the customer pays, or the session expires or fails, at the provider
ProviderSettle(s, st) ==
    /\ s \in 1..Len(provider)
    /\ provider[s].payment_status = "unpaid"
    /\ provider' = [provider EXCEPT ![s].payment_status = st]
    /\ UNCHANGED <<properties, bookings, transactions, emails, req>>

\* datetime.now() of an update: later than the stamp it replaces
Later(t) == IF t < MaxStamp THEN t + 1 ELSE MaxStamp

\* update_one({"session_id": s}, {"$set": {payment_status, updated_at}})
SetTxStatus(s, st) ==
    [i \in 1..Len(transactions) |->
        IF transactions[i].session_id = s
        THEN [transactions[i] EXCEPT !.payment_status = st,
                                     !.updated_at = Later(@)]
        ELSE transactions[i]]

\* a booking update that forgets payment_status
ConfirmBooking_StatusOnly(b) ==
    [i \in 1..Len(bookings) |->
        IF i = b THEN [bookings[i] EXCEPT !.status = "confirmed"]
        ELSE bookings[i]]

\* a booking update that writes the whole document back without its session
ConfirmBooking_ClearSession(b) ==
    [i \in 1..Len(bookings) |->
        IF i = b
        THEN [bookings[i] EXCEPT !.status = "confirmed", !.payment_status = "paid",
                                 !.stripe_session_id = NoSession]
        ELSE bookings[i]]

\* update_one({"id": b}, {"$set": {"status": "confirmed", "payment_status": "paid"}})
ConfirmBooking(b) ==
    [i \in 1..Len(bookings) |->
        IF i = b
        THEN [bookings[i] EXCEPT !.status = "confirmed", !.payment_status = "paid"]
        ELSE bookings[i]]

\* send_email of the confirmation: counted, never fails the request
SendConfirmation(b) ==
    [emails EXCEPT ![b] = IF @ < MaxEmails THEN @ + 1 ELSE MaxEmails]

\* ------------------------------------------ create_stripe_checkout_session
\* a checkout that does not test whether the booking is already paid
create_stripe_checkout_session_find_NoPaidTest(r, u, b) ==
    /\ Free(r)
    /\ req' = [req EXCEPT ![r] =
            IF ~HasBooking(b)
            THEN [kind |-> "checkout", pc |-> "done", user |-> u,
                  booking_id |-> b, amount |-> 0, session_id |-> NoSession,
                  res |-> 404]
            ELSE IF bookings[b].user_id # u
            THEN [kind |-> "checkout", pc |-> "done", user |-> u,
                  booking_id |-> b, amount |-> 0, session_id |-> NoSession,
                  res |-> 403]
            ELSE [kind |-> "checkout", pc |-> "create_session", user |-> u,
                  booking_id |-> b, amount |-> bookings[b].total_price,
                  session_id |-> NoSession, res |-> 0]]
    /\ UNCHANGED <<properties, bookings, transactions, provider, emails>>

create_stripe_checkout_session_find(r, u, b) ==
    /\ Free(r)
    /\ req' = [req EXCEPT ![r] =
            IF ~HasBooking(b)
            THEN [kind |-> "checkout", pc |-> "done", user |-> u,
                  booking_id |-> b, amount |-> 0, session_id |-> NoSession,
                  res |-> 404]
            ELSE IF bookings[b].user_id # u
            THEN [kind |-> "checkout", pc |-> "done", user |-> u,
                  booking_id |-> b, amount |-> 0, session_id |-> NoSession,
                  res |-> 403]
            ELSE IF bookings[b].payment_status = "paid"
            THEN [kind |-> "checkout", pc |-> "done", user |-> u,
                  booking_id |-> b, amount |-> 0, session_id |-> NoSession,
                  res |-> 400]
            ELSE [kind |-> "checkout", pc |-> "create_session", user |-> u,
                  booking_id |-> b, amount |-> bookings[b].total_price,
                  session_id |-> NoSession, res |-> 0]]
    /\ UNCHANGED <<properties, bookings, transactions, provider, emails>>

\* stripe_checkout.create_checkout_session: a new session, or an error
create_stripe_checkout_session_provider(r, ok) ==
    /\ req[r].kind = "checkout" /\ req[r].pc = "create_session"
    /\ IF ok
       THEN /\ provider' = Append(provider,
                    [booking_id |-> req[r].booking_id,
                     amount |-> req[r].amount,
                     payment_status |-> "unpaid"])
            /\ req' = [req EXCEPT ![r] =
                    [@ EXCEPT !.pc = "insert_tx", !.session_id = Len(provider) + 1]]
       ELSE /\ req' = [req EXCEPT ![r] = [@ EXCEPT !.pc = "done", !.res = 500]]
            /\ UNCHANGED provider
    /\ UNCHANGED <<properties, bookings, transactions, emails>>

create_stripe_checkout_session_insert(r) ==
    /\ req[r].kind = "checkout" /\ req[r].pc = "insert_tx"
    /\ transactions' = Append(transactions,
            [booking_id |-> req[r].booking_id,
             user_id |-> req[r].user,
             session_id |-> req[r].session_id,
             amount |-> req[r].amount,
             payment_status |-> "pending",
             updated_at |-> 0])
    /\ req' = [req EXCEPT ![r] = [@ EXCEPT !.pc = "stamp"]]
    /\ UNCHANGED <<properties, bookings, provider, emails>>

\* a stamp that writes back the booking as it was created
create_stripe_checkout_session_stamp_Reset(r) ==
    /\ req[r].kind = "checkout" /\ req[r].pc = "stamp"
    /\ bookings' = [bookings EXCEPT
            ![req[r].booking_id].stripe_session_id = req[r].session_id,
            ![req[r].booking_id].status = "pending",
            ![req[r].booking_id].payment_status = "pending"]
    /\ req' = [req EXCEPT ![r] = [@ EXCEPT !.pc = "done", !.res = 200]]
    /\ UNCHANGED <<properties, transactions, provider, emails>>

create_stripe_checkout_session_stamp(r) ==
    /\ req[r].kind = "checkout" /\ req[r].pc = "stamp"
    /\ bookings' = [bookings EXCEPT
            ![req[r].booking_id].stripe_session_id = req[r].session_id]
    /\ req' = [req EXCEPT ![r] = [@ EXCEPT !.pc = "done", !.res = 200]]
    /\ UNCHANGED <<properties, transactions, provider, emails>>

\* ----------------------------------------------------- get_checkout_status
PollDone(u, s, res, status, called) ==
    [kind |-> "poll", pc |-> "done", user |-> u, session_id |-> s,
     res |-> res, status |-> status, called |-> called]

get_checkout_status_find(r, u, s) ==
    /\ Free(r)
    /\ req' = [req EXCEPT ![r] =
            IF ~HasTx(s) THEN PollDone(u, s, 404, "none", FALSE)
            ELSE IF TxOf(s).user_id # u THEN PollDone(u, s, 403, "none", FALSE)
            ELSE IF TxOf(s).payment_status \in Terminal
            THEN PollDone(u, s, 200, TxOf(s).payment_status, FALSE)
            ELSE [kind |-> "poll", pc |-> "get_status", user |-> u,
                  session_id |-> s, booking_id |-> TxOf(s).booking_id,
                  status |-> "none"]]
    /\ UNCHANGED <<properties, bookings, transactions, provider, emails>>

\* a poll that records the transaction as failed when the provider call
\* fails
get_checkout_status_provider_MarkFailed(r, ok) ==
    /\ req[r].kind = "poll" /\ req[r].pc = "get_status"
    /\ req' = [req EXCEPT ![r] =
            IF ok
            THEN [@ EXCEPT !.pc = "update_tx",
                           !.status = provider[req[r].session_id].payment_status]
            ELSE PollDone(req[r].user, req[r].session_id, 500, "none", TRUE)]
    /\ transactions' = IF ok THEN transactions
                       ELSE SetTxStatus(req[r].session_id, "failed")
    /\ UNCHANGED <<properties, bookings, provider, emails>>

\* stripe_checkout.get_checkout_status: the provider's answer, or an error
get_checkout_status_provider(r, ok) ==
    /\ req[r].kind = "poll" /\ req[r].pc = "get_status"
    /\ req' = [req EXCEPT ![r] =
            IF ok
            THEN [@ EXCEPT !.pc = "update_tx",
                           !.status = provider[req[r].session_id].payment_status]
            ELSE PollDone(req[r].user, req[r].session_id, 500, "none", TRUE)]
    /\ UNCHANGED <<properties, bookings, transactions, provider, emails>>

\* a poll that answers right after the transaction write
get_checkout_status_update_tx_NoBooking(r) ==
    /\ req[r].kind = "poll" /\ req[r].pc = "update_tx"
    /\ transactions' = SetTxStatus(req[r].session_id, req[r].status)
    /\ req' = [req EXCEPT ![r] =
            PollDone(req[r].user, req[r].session_id, 200, req[r].status, TRUE)]
    /\ UNCHANGED <<properties, bookings, provider, emails>>

get_checkout_status_update_tx(r) ==
    /\ req[r].kind = "poll" /\ req[r].pc = "update_tx"
    /\ transactions' = SetTxStatus(req[r].session_id, req[r].status)
    /\ req' = [req EXCEPT ![r] =
            IF req[r].status = "paid"
            THEN [@ EXCEPT !.pc = "find_booking"]
            ELSE PollDone(req[r].user, req[r].session_id, 200, req[r].status, TRUE)]
    /\ UNCHANGED <<properties, bookings, provider, emails>>

get_checkout_status_find_booking(r) ==
    /\ req[r].kind = "poll" /\ req[r].pc = "find_booking"
    /\ req' = [req EXCEPT ![r] =
            IF HasBooking(req[r].booking_id)
               /\ bookings[req[r].booking_id].status # "confirmed"
            THEN [@ EXCEPT !.pc = "update_booking"]
            ELSE PollDone(req[r].user, req[r].session_id, 200, req[r].status, TRUE)]
    /\ UNCHANGED <<properties, bookings, transactions, provider, emails>>

\* the booking update, then the confirmation e-mail to the paying user
get_checkout_status_update_booking(r) ==
    /\ req[r].kind = "poll" /\ req[r].pc = "update_booking"
    /\ bookings' = ConfirmBooking(req[r].booking_id)
    /\ emails' = SendConfirmation(req[r].booking_id)
    /\ req' = [req EXCEPT ![r] =
            PollDone(req[r].user, req[r].session_id, 200, req[r].status, TRUE)]
    /\ UNCHANGED <<properties, transactions, provider>>

\* ---------------------------------------------------------- stripe_webhook
WebhookDone(s, type, status, res) ==
    [kind |-> "webhook", pc |-> "done", session_id |-> s, event_type |-> type,
     payment_status |-> status, res |-> res]

\* a delivery handler that does not look at the event type
stripe_webhook_receive_AnyType(r, s, type, valid) ==
    /\ Free(r)
    /\ s \in 1..Len(provider)
    /\ LET st == provider[s].payment_status
       IN  req' = [req EXCEPT ![r] =
                IF ~valid THEN WebhookDone(s, type, st, 400)
                ELSE [kind |-> "webhook", pc |-> "find_tx", session_id |-> s,
                      event_type |-> type, payment_status |-> st,
                      booking_id |-> 0]]
    /\ UNCHANGED <<properties, bookings, transactions, provider, emails>>

\* the delivery arrives and stripe_checkout.handle_webhook verifies it; the
\* event carries the session's payment_status of the time it was sent
stripe_webhook_receive(r, s, type, valid) ==
    /\ Free(r)
    /\ s \in 1..Len(provider)
    /\ LET st == provider[s].payment_status
       IN  req' = [req EXCEPT ![r] =
                IF ~valid THEN WebhookDone(s, type, st, 400)
                ELSE IF type \notin SuccessEvents THEN WebhookDone(s, type, st, 200)
                ELSE [kind |-> "webhook", pc |-> "find_tx", session_id |-> s,
                      event_type |-> type, payment_status |-> st,
                      booking_id |-> 0]]
    /\ UNCHANGED <<properties, bookings, transactions, provider, emails>>

stripe_webhook_find_tx(r) ==
    /\ req[r].kind = "webhook" /\ req[r].pc = "find_tx"
    /\ req' = [req EXCEPT ![r] =
            IF HasTx(req[r].session_id)
               /\ TxOf(req[r].session_id).payment_status # "paid"
            THEN [@ EXCEPT !.pc = "update_tx",
                           !.booking_id = TxOf(req[r].session_id).booking_id]
            ELSE WebhookDone(req[r].session_id, req[r].event_type,
                             req[r].payment_status, 200)]
    /\ UNCHANGED <<properties, bookings, transactions, provider, emails>>

stripe_webhook_update_tx(r) ==
    /\ req[r].kind = "webhook" /\ req[r].pc = "update_tx"
    /\ transactions' = SetTxStatus(req[r].session_id, req[r].payment_status)
    /\ req' = [req EXCEPT ![r] = [@ EXCEPT !.pc = "update_booking"]]
    /\ UNCHANGED <<properties, bookings, provider, emails>>

stripe_webhook_update_booking(r) ==
    /\ req[r].kind = "webhook" /\ req[r].pc = "update_booking"
    /\ bookings' = ConfirmBooking(req[r].booking_id)
    /\ req' = [req EXCEPT ![r] =
            WebhookDone(req[r].session_id, req[r].event_type,
                        req[r].payment_status, 200)]
    /\ UNCHANGED <<properties, transactions, provider, emails>>

\* ---------------------------------------------------------- specification
Guest == "alice"

\* who asks for a checkout or polls: the guest, and somebody else
Payers == {"alice", "bob"}

\* Spec: the requests of one guest for one stay, every step of every
\* request interleaved with the steps of the other requests in flight.
Next ==
    \/ \E r \in Reqs :
            /\ Len(bookings) + Creating < RaceBookings
            /\ create_booking_find_prop(r, Guest, "p1", StayA)
    \/ \E r \in Reqs : create_booking_find_overlap(r)
    \/ \E r \in Reqs : create_booking_insert(r)
    \/ \E r \in Reqs, b \in 1..RaceBookings : cancel_booking_find(r, Guest, b)
    \/ \E r \in Reqs, sent \in BOOLEAN : cancel_booking_update(r, sent)
    \/ \E r \in Reqs, b \in 1..RaceBookings :
            /\ Len(provider) + Opening < RaceSessions
            /\ create_stripe_checkout_session_find(r, Guest, b)
    \/ \E r \in Reqs, ok \in BOOLEAN :
            create_stripe_checkout_session_provider(r, ok)
    \/ \E r \in Reqs : create_stripe_checkout_session_insert(r)
    \/ \E r \in Reqs : create_stripe_checkout_session_stamp(r)
    \/ \E s \in 1..RaceSessions, st \in Settlements : ProviderSettle(s, st)
    \/ \E r \in Reqs, s \in 1..RaceSessions : get_checkout_status_find(r, Guest, s)
    \/ \E r \in Reqs, ok \in BOOLEAN : get_checkout_status_provider(r, ok)
    \/ \E r \in Reqs : get_checkout_status_update_tx(r)
    \/ \E r \in Reqs : get_checkout_status_find_booking(r)
    \/ \E r \in Reqs : get_checkout_status_update_booking(r)
    \/ \E r \in Reqs, s \in 1..RaceSessions, type \in EventTypes, valid \in BOOLEAN :
            stripe_webhook_receive(r, s, type, valid)
    \/ \E r \in Reqs : stripe_webhook_find_tx(r)
    \/ \E r \in Reqs : stripe_webhook_update_tx(r)
    \/ \E r \in Reqs : stripe_webhook_update_booking(r)

Spec == Init /\ [][Next]_vars

\* the next step of the pollStatus or handleWebhook request in slot r: the
\* event loop resumes a coroutine once the call it awaits has returned
Resume(r) ==
    \/ \E ok \in BOOLEAN : get_checkout_status_provider(r, ok)
    \/ get_checkout_status_update_tx(r)
    \/ get_checkout_status_find_booking(r)
    \/ get_checkout_status_update_booking(r)
    \/ stripe_webhook_find_tx(r)
    \/ stripe_webhook_update_tx(r)
    \/ stripe_webhook_update_booking(r)

\* SpecFair: Spec, where every pollStatus and handleWebhook request that was
\* started runs to completion.
SpecFair == Spec /\ \A r \in Reqs : WF_vars(Resume(r))

\* SpecSeq: one request at a time, by any user, on up to MaxBookings
\* bookings and MaxSessions sessions.
NextSeq ==
    \/ /\ Len(bookings) + Creating < MaxBookings
       /\ create_booking_find_prop(1, Guest, "p1", StayA)
    \/ create_booking_find_overlap(1)
    \/ create_booking_insert(1)
    \/ \E u \in Users, b \in BookingIds : cancel_booking_find(1, u, b)
    \/ \E sent \in BOOLEAN : cancel_booking_update(1, sent)
    \/ \E u \in Payers, b \in BookingIds :
            /\ Len(provider) + Opening < MaxSessions
            /\ create_stripe_checkout_session_find(1, u, b)
    \/ \E ok \in BOOLEAN : create_stripe_checkout_session_provider(1, ok)
    \/ create_stripe_checkout_session_insert(1)
    \/ create_stripe_checkout_session_stamp(1)
    \/ \E s \in SessionIds, st \in Settlements : ProviderSettle(s, st)
    \/ \E u \in Payers, s \in SessionIds : get_checkout_status_find(1, u, s)
    \/ \E ok \in BOOLEAN : get_checkout_status_provider(1, ok)
    \/ get_checkout_status_update_tx(1)
    \/ get_checkout_status_find_booking(1)
    \/ get_checkout_status_update_booking(1)
    \/ \E s \in SessionIds, type \in EventTypes, valid \in BOOLEAN :
            stripe_webhook_receive(1, s, type, valid)
    \/ stripe_webhook_find_tx(1)
    \/ stripe_webhook_update_tx(1)
    \/ stripe_webhook_update_booking(1)

SpecSeq == Init /\ [][NextSeq]_vars

\* stays booked one after the other: a night, the night after it, and a
\* stay written at +12:00 that shares half a day with each
BookStays == {StayA, StayC, StayD}

\* SpecBook: the guest books stays one request at a time and pays each
\* booking through its own session, the provider reporting by webhook.
NextBook ==
    \/ \E stay \in BookStays :
            /\ Len(bookings) + Creating < MaxBookings
            /\ create_booking_find_prop(1, Guest, "p1", stay)
    \/ create_booking_find_overlap(1)
    \/ create_booking_insert(1)
    \/ \E b \in BookingIds :
            /\ Len(provider) + Opening < MaxSessions
            /\ create_stripe_checkout_session_find(1, Guest, b)
    \/ \E ok \in BOOLEAN : create_stripe_checkout_session_provider(1, ok)
    \/ create_stripe_checkout_session_insert(1)
    \/ create_stripe_checkout_session_stamp(1)
    \/ \E s \in SessionIds, st \in Settlements : ProviderSettle(s, st)
    \/ \E s \in SessionIds, type \in EventTypes, valid \in BOOLEAN :
            stripe_webhook_receive(1, s, type, valid)
    \/ stripe_webhook_find_tx(1)
    \/ stripe_webhook_update_tx(1)
    \/ stripe_webhook_update_booking(1)

SpecBook == Init /\ [][NextBook]_vars

\* SpecPrice: one booking of one or two nights, its payment, and an
\* administrator changing the nightly price, one request at a time.
PriceStays == {StayA, StayB}

NextPrice ==
    \/ \E stay \in PriceStays :
            /\ Len(bookings) + Creating < RaceBookings
            /\ create_booking_find_prop(1, Guest, "p1", stay)
    \/ create_booking_find_overlap(1)
    \/ create_booking_insert(1)
    \/ \E u \in {Guest, "admin"}, price \in Prices :
            update_property_find(1, u, "p1", price)
    \/ update_property_update(1)
    \/ \E b \in 1..RaceBookings : cancel_booking_find(1, Guest, b)
    \/ \E sent \in BOOLEAN : cancel_booking_update(1, sent)
    \/ \E b \in 1..RaceBookings :
            /\ Len(provider) + Opening < MaxSessions
            /\ create_stripe_checkout_session_find(1, Guest, b)
    \/ \E ok \in BOOLEAN : create_stripe_checkout_session_provider(1, ok)
    \/ create_stripe_checkout_session_insert(1)
    \/ create_stripe_checkout_session_stamp(1)
    \/ \E s \in SessionIds, st \in Settlements : ProviderSettle(s, st)
    \/ \E s \in SessionIds : get_checkout_status_find(1, Guest, s)
    \/ \E ok \in BOOLEAN : get_checkout_status_provider(1, ok)
    \/ get_checkout_status_update_tx(1)
    \/ get_checkout_status_find_booking(1)
    \/ get_checkout_status_update_booking(1)
    \/ \E s \in SessionIds, type \in EventTypes, valid \in BOOLEAN :
            stripe_webhook_receive(1, s, type, valid)
    \/ stripe_webhook_find_tx(1)
    \/ stripe_webhook_update_tx(1)
    \/ stripe_webhook_update_booking(1)

SpecPrice == Init /\ [][NextPrice]_vars

\* SpecCreate: create, for any property id and any date range, over stored
\* bookings of every kind (the databases of InitAvail, defined below).
AskedProperties == PropertyIds \cup {"p0"}

CreateStays == StoredStays \cup {StayZ, StayR, StayH}

NextCreate ==
    \/ \E p \in AskedProperties, stay \in CreateStays :
            /\ Len(bookings) + Creating <= MaxBookings
            /\ create_booking_find_prop(1, Guest, p, stay)
    \/ create_booking_find_overlap(1)
    \/ create_booking_insert(1)

\* SpecAvail: the availability query over stored bookings of every kind.
\* Each initial state is a database the requests above can produce: any
\* stays can be booked while none is confirmed, and each booking is then
\* paid through its own session (webhook) and cancelled, or not,
\* independently of the others.
StatusPairs == {<<"pending", "pending">>, <<"confirmed", "paid">>,
                <<"cancelled", "pending">>, <<"cancelled", "paid">>}

BookingChoices == PropertyIds \X StoredStays \X StatusPairs

\* the session of booking i, when the paid bookings were paid in order
SessionOf(f, i) == Cardinality({j \in 1..i : f[j][3][2] = "paid"})

StoredBooking(f, i) ==
    [user_id |-> Guest,
     property_id |-> f[i][1],
     check_in |-> isoformat(f[i][2][1]),
     check_out |-> isoformat(f[i][2][2]),
     total_price |-> nights(f[i][2][1], f[i][2][2]) * 100,
     status |-> f[i][3][1],
     payment_status |-> f[i][3][2],
     stripe_session_id |-> IF f[i][3][2] = "paid" THEN SessionOf(f, i)
                           ELSE NoSession]

PaidBooking(f, k) == CHOOSE i \in DOMAIN f :
                        f[i][3][2] = "paid" /\ SessionOf(f, i) = k

InitAvail ==
    \E n \in 0..MaxBookings : \E f \in [1..n -> BookingChoices] :
        LET paid == Cardinality({i \in 1..n : f[i][3][2] = "paid"}) IN
        /\ properties = [p \in PropertyIds |-> [price_per_night |-> 100]]
        /\ bookings = [i \in 1..n |-> StoredBooking(f, i)]
        /\ provider = [k \in 1..paid |->
                [booking_id |-> PaidBooking(f, k),
                 amount |-> StoredBooking(f, PaidBooking(f, k)).total_price,
                 payment_status |-> "paid"]]
        /\ transactions = [k \in 1..paid |->
                [booking_id |-> PaidBooking(f, k),
                 user_id |-> Guest,
                 session_id |-> k,
                 amount |-> StoredBooking(f, PaidBooking(f, k)).total_price,
                 payment_status |-> "paid",
                 updated_at |-> 1]]
        /\ emails = [b \in BookingIds |-> 0]
        /\ req = [r \in Reqs |-> Idle]

NextAvail ==
    \E p \in PropertyIds, stay \in QueryStays : check_availability(1, p, stay)

SpecAvail == InitAvail /\ [][NextAvail]_vars

SpecCreate == InitAvail /\ [][NextCreate]_vars

\* ------------------------------------------------------------------ claims
\* C1: in every reachable state, whatever the interleaving of the requests,
\* every stored booking with status = confirmed has payment_status = paid.
C1_ConfirmedImpliesPaid ==
    \A i \in 1..Len(bookings) :
        bookings[i].status = "confirmed" => bookings[i].payment_status = "paid"

\* a booking was confirmed while a cancellation of it is about to be written
C1_Witness ==
    \E i \in 1..Len(bookings), r \in Reqs :
        /\ bookings[i].status = "confirmed"
        /\ bookings[i].payment_status = "paid"
        /\ req[r].kind = "cancel" /\ req[r].pc = "update"
        /\ req[r].booking_id = i

\* the request in slot r takes a step that writes a booking
WritesBooking(r) ==
    /\ req[r].kind \in {"poll", "webhook"}
    /\ req[r].pc = "update_booking"
    /\ req'[r].pc = "done"

\* the payment status the provider reported to the request in slot r
Reported(r) ==
    IF req[r].kind = "poll" THEN req[r].status ELSE req[r].payment_status

\* C2: a booking becomes confirmed only in a step of pollStatus or
\* handleWebhook to which the provider reported payment status paid.
C2_ConfirmedOnlyWhenPaid ==
    [][\A b \in 1..Len(bookings) :
          (bookings[b].status # "confirmed" /\ bookings'[b].status = "confirmed")
          => \E r \in Reqs : /\ WritesBooking(r)
                             /\ req[r].booking_id = b
                             /\ Reported(r) = "paid"]_vars

\* the stay of stored booking i, as instants
StoredIn(i) == Instant(fromisoformat(bookings[i].check_in))
StoredOut(i) == Instant(fromisoformat(bookings[i].check_out))

\* half-open intervals [a, b) and [c, d) overlap
Overlaps(a, b, c, d) == a < d /\ c < b

\* booking i was paid for: the provider settled one of its sessions as paid
\* and the transaction of that session is recorded paid
PaidFor(i) ==
    \E k \in 1..Len(transactions) :
        /\ transactions[k].booking_id = i
        /\ transactions[k].payment_status = "paid"
        /\ provider[transactions[k].session_id].payment_status = "paid"

OneOffset(i, r) ==
    /\ fromisoformat(bookings[i].check_in).off = req[r].ci.off
    /\ fromisoformat(bookings[i].check_out).off = req[r].ci.off
    /\ req[r].co.off = req[r].ci.off

C4_RaceOneNotification ==
    \A p, q \in Reqs :
        (/\ req[p].kind = "poll" /\ req[p].pc = "done"
         /\ req[p].res = 200 /\ req[p].called /\ req[p].status = "paid"
         /\ req[q].kind = "webhook" /\ req[q].pc = "done"
         /\ req[q].res = 200 /\ req[q].event_type \in SuccessEvents
         /\ req[q].payment_status = "paid"
         /\ req[q].session_id = req[p].session_id
         /\ HasTx(req[p].session_id)
         /\ bookings[TxOf(req[p].session_id).booking_id].status # "cancelled")
        => LET b == TxOf(req[p].session_id).booking_id IN
           /\ emails[b] = 1
           /\ bookings[b].status = "confirmed"
           /\ bookings[b].payment_status = "paid"

\* C5: at most one confirmation is ever sent for a booking.
C5_AtMostOneNotification == \A b \in BookingIds : emails[b] <= 1

\* C6: a transaction whose payment_status is paid, failed or expired never
\* gets another payment_status.
C6_TerminalImmutable ==
    [][\A i \in 1..Len(transactions) :
          transactions[i].payment_status \in {"paid", "failed", "expired"}
          => transactions'[i].payment_status = transactions[i].payment_status]_vars

\* slot r takes in a new request of the given kind
Starts(r, kind) == Free(r) /\ req'[r] # req[r] /\ req'[r].kind = kind

\* C7: a pollStatus call by the transaction's owner that reads a
\* transaction already paid, failed or expired calls the provider zero times,
\* changes no stored transaction or booking, sends no notification and
\* returns the cached status.
C7_CachedPollTouchesNothing ==
    [][\A r \in Reqs :
          (/\ Starts(r, "poll")
           /\ HasTx(req'[r].session_id)
           /\ TxOf(req'[r].session_id).user_id = req'[r].user
           /\ TxOf(req'[r].session_id).payment_status \in {"paid", "failed", "expired"})
          => /\ req'[r].pc = "done"
             /\ req'[r].res = 200
             /\ ~req'[r].called
             /\ req'[r].status = TxOf(req'[r].session_id).payment_status
             /\ UNCHANGED <<transactions, bookings, emails, provider>>]_vars

\* a poll answered "expired" from the stored transaction
C7_Witness ==
    \E r \in Reqs :
        /\ req[r].kind = "poll" /\ req[r].pc = "done"
        /\ req[r].res = 200 /\ ~req[r].called
        /\ req[r].status = "expired"
        /\ TxOf(req[r].session_id).payment_status = "expired"

\* C8: with requests served one after the other, a pollStatus or
\* handleWebhook that is about to apply to a transaction the terminal
\* payment status it already has changes no stored transaction or booking
\* and sends no notification.
C8_SecondApplicationIdempotent ==
    [][\A r \in Reqs :
          (/\ req[r].kind \in {"poll", "webhook"}
           /\ req[r].pc = "update_tx"
           /\ req'[r] # req[r]
           /\ Reported(r) \in {"paid", "failed", "expired"}
           /\ TxOf(req[r].session_id).payment_status = Reported(r))
          => UNCHANGED <<transactions, bookings, emails>>]_vars

\* C9 (as stated): once a booking has a session id, no step replaces it.
C9_SessionIdImmutable ==
    [][\A b \in 1..Len(bookings) :
          bookings[b].stripe_session_id # NoSession
          => bookings'[b].stripe_session_id = bookings[b].stripe_session_id]_vars

\* C9 (amended): a booking's session id is written only by the last step of
\* initiateCheckout for that booking, and is then the id of the session that
\* call created for it; a second initiateCheckout on the still-unpaid booking
\* replaces it, and no other operation changes it.
C9_SessionIdOnlyStamped ==
    [][\A b \in 1..Len(bookings) :
          bookings'[b].stripe_session_id # bookings[b].stripe_session_id
          => \E r \in Reqs :
                /\ req[r].kind = "checkout" /\ req[r].pc = "stamp"
                /\ req'[r].pc = "done"
                /\ req[r].booking_id = b
                /\ bookings'[b].stripe_session_id = req[r].session_id
                /\ provider[req[r].session_id].booking_id = b
                /\ HasTx(req[r].session_id)
                /\ TxOf(req[r].session_id).booking_id = b]_vars

\* a booking stamped with its second session, later confirmed
C9_Witness ==
    \E b \in 1..Len(bookings) :
        /\ bookings[b].stripe_session_id = 2
        /\ bookings[b].status = "confirmed"
        /\ HasTx(1) /\ TxOf(1).booking_id = b
        /\ HasTx(2) /\ TxOf(2).booking_id = b

\* C10: the availability check answers available exactly when no confirmed
\* booking of the property has an interval [c, d) with checkIn < d and
\* c < checkOut.
C10_AvailableIffNoOverlap ==
    [][\A r \in Reqs :
          Starts(r, "availability")
          => (req'[r].available
              <=> ~\E i \in 1..Len(bookings) :
                      /\ bookings[i].property_id = req'[r].prop
                      /\ bookings[i].status = "confirmed"
                      /\ Overlaps(Instant(req'[r].ci), Instant(req'[r].co),
                                  StoredIn(i), StoredOut(i)))]_vars

\* C11: the availability check for a zero-length interval [t, t) answers
\* available, whatever confirmed bookings exist.
C11_ZeroLengthAvailable ==
    [][\A r \in Reqs :
          (Starts(r, "availability") /\ req'[r].ci = req'[r].co)
          => req'[r].available]_vars

\* the date range asked for in slot r, after the step, is empty or reversed
BadRange(r) == Instant(req'[r].co) <= Instant(req'[r].ci)

\* C12 (as stated): create with checkOut <= checkIn fails with the
\* validation error whether or not the property exists, and persists nothing.
C12_BadRangeAlwaysValidation ==
    [][\A r \in Reqs :
          (Starts(r, "create") /\ BadRange(r))
          => /\ req'[r].pc = "done" /\ req'[r].res = 400
             /\ bookings' = bookings]_vars

\* C12 (amended): create with checkOut <= checkIn persists nothing and
\* fails: with the validation error when the property exists, whatever
\* bookings are stored, and with NotFound when it does not.
C12_BadRangeRejected ==
    [][\A r \in Reqs :
          (Starts(r, "create") /\ BadRange(r))
          => /\ req'[r].pc = "done"
             /\ req'[r].res = IF req'[r].prop \in DOMAIN properties
                              THEN 400 ELSE 404
             /\ bookings' = bookings]_vars

\* a reversed range was refused for a property that has a confirmed booking
C12_Witness ==
    /\ req[1].kind = "create" /\ req[1].pc = "done" /\ req[1].res = 400
    /\ Instant(req[1].co) < Instant(req[1].ci)
    /\ \E i \in 1..Len(bookings) :
            /\ bookings[i].property_id = req[1].prop
            /\ bookings[i].status = "confirmed"

\* C13: create for an existing property and a valid interval is refused,
\* persisting nothing, exactly when a confirmed booking of the property
\* overlaps the interval; otherwise it appends one booking in state
\* (pending, pending).
C13_RefusedIffConfirmedOverlap ==
    [][\A r \in Reqs :
          (req[r].kind = "create" /\ req'[r] # req[r])
          => /\ req[r].pc = "find_overlap"
                => LET taken == \E i \in 1..Len(bookings) :
                          /\ bookings[i].property_id = req[r].prop
                          /\ bookings[i].status = "confirmed"
                          /\ Overlaps(Instant(req[r].ci), Instant(req[r].co),
                                      StoredIn(i), StoredOut(i))
                   IN  /\ bookings' = bookings
                       /\ taken => (req'[r].pc = "done" /\ req'[r].res = 400)
                       /\ ~taken => req'[r].pc = "insert"
             /\ req[r].pc = "insert"
                => /\ Len(bookings') = Len(bookings) + 1
                   /\ SubSeq(bookings', 1, Len(bookings)) = bookings
                   /\ bookings'[Len(bookings')].status = "pending"
                   /\ bookings'[Len(bookings')].payment_status = "pending"
                   /\ req'[r].res = 200]_vars

\* nights of stored booking b
StoredNights(b) == nights(fromisoformat(b.check_in), fromisoformat(b.check_out))

\* C14: a booking is stored with total_price = nights times the property's
\* nightly price of that moment, no later step changes it, and every checkout
\* session and transaction of the booking carries it as its amount.
C14_TotalPriceFixed ==
    [][/\ \A b \in 1..Len(bookings) :
            bookings'[b].total_price = bookings[b].total_price
       /\ Len(bookings') > Len(bookings)
            => LET new == bookings'[Len(bookings')] IN
               new.total_price = StoredNights(new)
                    * properties[new.property_id].price_per_night
       /\ \A s \in 1..Len(provider') :
            provider'[s].amount = bookings'[provider'[s].booking_id].total_price
       /\ \A k \in 1..Len(transactions') :
            transactions'[k].amount
                = bookings'[transactions'[k].booking_id].total_price]_vars

\* a checkout session was opened, for the price of the booking's creation,
\* after the nightly price had changed
C14_Witness ==
    /\ req[1].kind = "checkout" /\ req[1].pc = "done" /\ req[1].res = 200
    /\ LET b == bookings[req[1].booking_id] IN
        /\ StoredNights(b) = 2
        /\ b.total_price = 200
        /\ properties[b.property_id].price_per_night = 150
        /\ provider[req[1].session_id].amount = 200

\* C15: cancel answers NotFound for a missing booking and Forbidden for an
\* actor who is neither its owner nor an administrator, changing nothing;
\* otherwise it sets status = cancelled, whatever the status was and whether
\* or not the e-mail went out, and changes nothing else of the booking and no
\* transaction.
C15_CancelFrame ==
    [][\A r \in Reqs :
          /\ Starts(r, "cancel")
                => LET b == req'[r].booking_id
                       u == req'[r].user
                   IN  /\ UNCHANGED <<bookings, transactions, emails, provider>>
                       /\ ~HasBooking(b)
                            => (req'[r].pc = "done" /\ req'[r].res = 404)
                       /\ (HasBooking(b) /\ bookings[b].user_id # u
                                         /\ Role(u) # "admin")
                            => (req'[r].pc = "done" /\ req'[r].res = 403)
                       /\ (HasBooking(b) /\ (bookings[b].user_id = u
                                             \/ Role(u) = "admin"))
                            => req'[r].pc = "update"
          /\ (req[r].kind = "cancel" /\ req[r].pc = "update" /\ req'[r] # req[r])
                => /\ req'[r].pc = "done" /\ req'[r].res = 200
                   /\ bookings' = [bookings EXCEPT
                            ![req[r].booking_id].status = "cancelled"]
                   /\ UNCHANGED <<transactions, emails, provider>>]_vars

\* an administrator cancelled somebody else's confirmed, paid booking and the
\* e-mail could not be sent
C15_Witness ==
    \E r \in Reqs :
        /\ req[r].kind = "cancel" /\ req[r].pc = "done" /\ req[r].res = 200
        /\ ~req[r].mailed
        /\ Role(req[r].user) = "admin"
        /\ bookings[req[r].booking_id].user_id # req[r].user
        /\ bookings[req[r].booking_id].status = "cancelled"
        /\ bookings[req[r].booking_id].payment_status = "paid"
        /\ bookings[req[r].booking_id].stripe_session_id # NoSession

\* the (status, payment_status) pair of a stored booking
Pair(b) == <<b.status, b.payment_status>>

\* the transitions of the booking lifecycle
Lifecycle(old, new) ==
    \/ old = <<"pending", "pending">> /\ new = <<"confirmed", "paid">>
    \/ old[1] = "pending" /\ new = <<"cancelled", old[2]>>
    \/ old = <<"confirmed", "paid">> /\ new = <<"cancelled", "paid">>

\* C16: a booking starts at (pending, pending) and every change of its
\* (status, payment_status) pair is a transition of the lifecycle; a
\* cancelled booking is never confirmed again, even by a payment that
\* succeeds.  Steps of a request that was told anything other than "paid"
\* are left out: what they do is the matter of C2.
C16_LifecycleOnly ==
    [][/\ Len(bookings') > Len(bookings)
            => Pair(bookings'[Len(bookings')]) = <<"pending", "pending">>
       /\ \A b \in 1..Len(bookings) :
            (/\ Pair(bookings'[b]) # Pair(bookings[b])
             /\ ~\E r \in Reqs : WritesBooking(r) /\ Reported(r) # "paid")
            => Lifecycle(Pair(bookings[b]), Pair(bookings'[b]))]_vars

\* C17: initiateCheckout answers NotFound for an absent booking, Forbidden
\* for an actor who is not its owner and AlreadyPaid for a paid booking; the
\* request ends there, before the provider is called, and no transaction or
\* booking is written.
C17_CheckoutRefusals ==
    [][\A r \in Reqs :
          Starts(r, "checkout")
          => LET b == req'[r].booking_id
                 u == req'[r].user
             IN  /\ UNCHANGED <<bookings, transactions, provider, emails>>
                 /\ ~HasBooking(b)
                      => (req'[r].pc = "done" /\ req'[r].res = 404)
                 /\ (HasBooking(b) /\ bookings[b].user_id # u)
                      => (req'[r].pc = "done" /\ req'[r].res = 403)
                 /\ (HasBooking(b) /\ bookings[b].user_id = u
                                   /\ bookings[b].payment_status = "paid")
                      => (req'[r].pc = "done" /\ req'[r].res = 400)]_vars

\* the owner asked for a checkout of a booking already paid
C17_Witness ==
    \E r \in Reqs :
        /\ req[r].kind = "checkout" /\ req[r].pc = "done" /\ req[r].res = 400
        /\ bookings[req[r].booking_id].user_id = req[r].user
        /\ bookings[req[r].booking_id].payment_status = "paid"

\* C18: when the provider call of a pollStatus fails, the call answers with
\* an error and no transaction and no booking is changed and no notification
\* is sent.
C18_ProviderFailureNoWrite ==
    [][\A r \in Reqs :
          (/\ req[r].kind = "poll" /\ req[r].pc = "get_status"
           /\ req'[r].pc = "done")
          => /\ req'[r].res = 500
             /\ UNCHANGED <<transactions, bookings, emails>>]_vars

\* a poll failed at the provider although the session had been paid, and
\* transaction and booking are still pending
C18_Witness ==
    \E r \in Reqs :
        /\ req[r].kind = "poll" /\ req[r].pc = "done" /\ req[r].res = 500
        /\ req[r].called
        /\ provider[req[r].session_id].payment_status = "paid"
        /\ TxOf(req[r].session_id).payment_status = "pending"
        /\ bookings[TxOf(req[r].session_id).booking_id].status = "pending"
        /\ emails[TxOf(req[r].session_id).booking_id] = 0

C20_CheckoutCreatesOneTransaction ==
    [][\A r \in Reqs :
          (req[r].kind = "checkout" /\ req'[r] # req[r] /\ ~Free(r))
          => LET b == req[r].booking_id
                 s == req[r].session_id
             IN  /\ req[r].pc = "create_session"
                    => UNCHANGED <<transactions, bookings>>
                 /\ req[r].pc = "insert_tx"
                    => /\ ~HasTx(s)
                       /\ provider[s].booking_id = b
                       /\ Len(transactions') = Len(transactions) + 1
                       /\ SubSeq(transactions', 1, Len(transactions)) = transactions
                       /\ LET tx == transactions'[Len(transactions')] IN
                           /\ tx.session_id = s
                           /\ tx.booking_id = b
                           /\ tx.payment_status = "pending"
                           /\ tx.amount = bookings[b].total_price
                       /\ bookings' = bookings
                 /\ req[r].pc = "stamp"
                    => /\ bookings' = [bookings EXCEPT ![b].stripe_session_id = s]
                       /\ transactions' = transactions
                       /\ Cardinality(TxIndex(s)) = 1
                       /\ req'[r].pc = "done" /\ req'[r].res = 200]_vars

\* a checkout succeeded for a booking that had been cancelled meanwhile
C20_Witness ==
    \E r \in Reqs :
        /\ req[r].kind = "checkout" /\ req[r].pc = "done" /\ req[r].res = 200
        /\ bookings[req[r].booking_id].stripe_session_id = req[r].session_id
        /\ bookings[req[r].booking_id].status = "cancelled"
        /\ Cardinality(TxIndex(req[r].session_id)) = 1
        /\ TxOf(req[r].session_id).booking_id = req[r].booking_id

\* C21: a verified success-type event for a session whose transaction exists
\* and is not paid applies the result paid, whatever payment status the event
\* carries: when the delivery has been handled the transaction is paid and the
\* booking is (confirmed, paid).
C21_WebhookAppliesPaid ==
    [][\A r \in Reqs :
          (/\ req[r].kind = "webhook" /\ req[r].pc = "update_booking"
           /\ req'[r].pc = "done")
          => /\ TxOf(req[r].session_id)'.payment_status = "paid"
             /\ Pair(bookings'[req[r].booking_id]) = <<"confirmed", "paid">>]_vars

\* C22: every stored transaction's payment_status is one of pending, paid,
\* failed, expired.
C22_TxStatusInDomain ==
    \A k \in 1..Len(transactions) :
        transactions[k].payment_status \in {"pending", "paid", "failed", "expired"}

\* C23: a pollStatus on a pending transaction to which the provider reports
\* a status that is not terminal leaves the stored transaction, its
\* updated_at included, and the booking unchanged.
C23_NonTerminalPollNoWrite ==
    [][\A r \in Reqs :
          (/\ req[r].kind = "poll" /\ req[r].pc = "update_tx"
           /\ req'[r] # req[r]
           /\ TxOf(req[r].session_id).payment_status = "pending"
           /\ req[r].status \notin {"paid", "failed", "expired"})
          => UNCHANGED <<transactions, bookings>>]_vars

\* the transactions of booking b that are recorded paid for a session the
\* provider settled as paid
PaidTxOf(b) ==
    {k \in 1..Len(transactions) :
        /\ transactions[k].booking_id = b
        /\ transactions[k].payment_status = "paid"
        /\ provider[transactions[k].session_id].payment_status = "paid"}

\* C24: at most one of a booking's transactions is ever paid.
C24_OnePaidTransaction ==
    \A b \in 1..Len(bookings) : Cardinality(PaidTxOf(b)) <= 1

\* C25: when pollStatus answers payment_status = paid, from the provider or
\* from the stored transaction, the booking of the transaction has
\* payment_status = paid in storage at that moment.
C25_PaidAnswerMeansBookingPaid ==
    [][\A r \in Reqs :
          (/\ req'[r] # req[r]
           /\ req'[r].kind = "poll" /\ req'[r].pc = "done"
           /\ req'[r].res = 200 /\ req'[r].status = "paid"
           /\ provider[req'[r].session_id].payment_status = "paid")
          => bookings'[TxOf(req'[r].session_id).booking_id].payment_status
                = "paid"]_vars

\* no request is in flight
Quiescent == \A r \in Reqs : Free(r)

\* the transaction of session s is recorded paid
TxPaid(s) == HasTx(s) /\ TxOf(s).payment_status = "paid"

\* the booking of the transaction of session s is confirmed or cancelled,
\* with payment_status = paid
BookingPaid(s) ==
    /\ HasTx(s)
    /\ bookings[TxOf(s).booking_id].payment_status = "paid"
    /\ bookings[TxOf(s).booking_id].status # "pending"

\* C26: when every pollStatus and handleWebhook request that was started
\* runs to completion, a transaction recorded paid leads to its booking
\* having payment_status = paid and having been confirmed; and no state
\* without a request in flight has a paid transaction whose booking still
\* has payment_status = pending.
C26_PaidReachesBooking ==
    /\ \A s \in SessionIds : TxPaid(s) ~> BookingPaid(s)
    /\ [](Quiescent => \A s \in SessionIds : TxPaid(s) => BookingPaid(s))

\* nothing is in flight after a poll confirmed the paid booking and sent the
\* confirmation
C26_Witness ==
    /\ Quiescent
    /\ \E r \in Reqs :
            /\ req[r].kind = "poll" /\ req[r].res = 200 /\ req[r].called
            /\ req[r].status = "paid"
            /\ TxPaid(req[r].session_id)
            /\ BookingPaid(req[r].session_id)
            /\ emails[TxOf(req[r].session_id).booking_id] = 1

====
